---------------------------- MODULE Spec2Model ----------------------------
(***************************************************************************)
(* A model of jctl (src/jctl.py): the journal directory and the scratch    *)
(* directory as maps from file names to files, the commands new / edit /   *)
(* search as processes that stop at every point where the program blocks   *)
(* on the operator, the editor or the templater, and the front-matter      *)
(* codec as operators over texts.                                          *)
(*                                                                         *)
(* A text is a sequence of one-character strings, so that find, strip,     *)
(* split, slicing, lower-casing and sorting are computed character by      *)
(* character as Python computes them.                                      *)
(***************************************************************************)
EXTENDS Integers, Sequences, FiniteSets, TLC

(***************************************************************************)
(* Bounds of the model.                                                    *)
(***************************************************************************)
\* the clock: seconds after the first second
MaxSec == 1
\* selection inputs that are counted (the counter then saturates)
MaxReads == 3
\* front-matter lines of an input text of the codec specification
MaxLines == 2

(***************************************************************************)
(* Python's str operations, on sequences of characters.                    *)
(***************************************************************************)
\* str.isspace() of one character, as str.strip() uses it
IsSpace(c) == c \in {" ", "\n", "\t", "\r"}

\* s.startswith(pat, i) with a 0-based i
MatchAt(s, pat, i) ==
    /\ i + Len(pat) <= Len(s)
    /\ \A k \in 1..Len(pat) : s[i + k] = pat[k]

\* s.find(pat): the 0-based index of the first occurrence, or -1
Find(s, pat) ==
    LET hits == {i \in 0..Len(s) : MatchAt(s, pat, i)}
    IN  IF hits = {} THEN -1 ELSE CHOOSE i \in hits : \A j \in hits : i <= j

\* pat in s
Contains(pat, s) == Find(s, pat) # -1

\* an index of a slice, as Python normalises it: negative counts from the end
SliceIndex(s, i) ==
    LET j == IF i < 0 THEN i + Len(s) ELSE i
    IN  IF j < 0 THEN 0 ELSE IF j > Len(s) THEN Len(s) ELSE j

\* s[b:e]
Slice(s, b, e) == SubSeq(s, SliceIndex(s, b) + 1, SliceIndex(s, e))

\* s[b:]
SliceFrom(s, b) == SubSeq(s, SliceIndex(s, b) + 1, Len(s))

\* s.strip()
Strip(s) ==
    LET keep == {i \in 1..Len(s) : ~IsSpace(s[i])}
    IN  IF keep = {} THEN <<>>
        ELSE SubSeq(s, CHOOSE i \in keep : \A j \in keep : i <= j,
                       CHOOSE i \in keep : \A j \in keep : i >= j)

\* s.split(sep): every piece, empty ones too
RECURSIVE Split(_, _)
Split(s, sep) ==
    LET i == Find(s, sep)
    IN  IF i = -1 THEN <<s>>
        ELSE <<SubSeq(s, 1, i)>> \o Split(SubSeq(s, i + Len(sep) + 1, Len(s)), sep)

\* s.split(sep, 1): split at the first occurrence only
SplitOnce(s, sep) ==
    LET i == Find(s, sep)
    IN  IF i = -1 THEN <<s>>
        ELSE <<SubSeq(s, 1, i), SubSeq(s, i + Len(sep) + 1, Len(s))>>

\* sep.join(parts)
RECURSIVE Join(_, _)
Join(parts, sep) ==
    IF parts = <<>> THEN <<>>
    ELSE IF Len(parts) = 1 THEN parts[1]
    ELSE parts[1] \o sep \o Join(Tail(parts), sep)

\* str.lower() of one character (the letters the model's texts use)
LowerChar(c) ==
    CASE c = "A" -> "a" [] c = "B" -> "b" [] c = "C" -> "c" [] c = "D" -> "d"
      [] c = "E" -> "e" [] c = "F" -> "f" [] c = "G" -> "g" [] c = "H" -> "h"
      [] c = "I" -> "i" [] c = "J" -> "j" [] c = "K" -> "k" [] c = "L" -> "l"
      [] c = "M" -> "m" [] c = "N" -> "n" [] c = "O" -> "o" [] c = "P" -> "p"
      [] c = "Q" -> "q" [] c = "R" -> "r" [] c = "S" -> "s" [] c = "T" -> "t"
      [] c = "U" -> "u" [] c = "V" -> "v" [] c = "W" -> "w" [] c = "X" -> "x"
      [] c = "Y" -> "y" [] c = "Z" -> "z"
      [] OTHER -> c

\* s.lower()
Lower(s) == [i \in 1..Len(s) |-> LowerChar(s[i])]

\* ord(c): the code point, which orders strings in sorted()
Ord(c) ==
    CASE c = "\n" -> 10 [] c = " " -> 32 [] c = "\"" -> 34 [] c = "+" -> 43
      [] c = "-" -> 45 [] c = "." -> 46
      [] c = "0" -> 48 [] c = "1" -> 49 [] c = "2" -> 50 [] c = "3" -> 51
      [] c = "4" -> 52 [] c = "5" -> 53 [] c = "6" -> 54 [] c = "7" -> 55
      [] c = "8" -> 56 [] c = "9" -> 57 [] c = ":" -> 58
      [] c = "A" -> 65 [] c = "B" -> 66 [] c = "D" -> 68 [] c = "N" -> 78
      [] c = "O" -> 79 [] c = "Q" -> 81 [] c = "T" -> 84 [] c = "Y" -> 89
      [] c = "_" -> 95
      [] c = "a" -> 97 [] c = "b" -> 98 [] c = "c" -> 99 [] c = "d" -> 100
      [] c = "e" -> 101 [] c = "f" -> 102 [] c = "i" -> 105 [] c = "l" -> 108
      [] c = "m" -> 109 [] c = "n" -> 110 [] c = "o" -> 111 [] c = "q" -> 113
      [] c = "r" -> 114 [] c = "s" -> 115 [] c = "t" -> 116 [] c = "u" -> 117
      [] c = "x" -> 120 [] c = "y" -> 121 [] c = "z" -> 122

\* a < b for two strings
RECURSIVE StrLess(_, _)
StrLess(a, b) ==
    IF b = <<>> THEN FALSE
    ELSE IF a = <<>> THEN TRUE
    ELSE IF Head(a) = Head(b) THEN StrLess(Tail(a), Tail(b))
    ELSE Ord(Head(a)) < Ord(Head(b))

\* one element put into a list that is sorted in descending order
RECURSIVE InsertDesc(_, _)
InsertDesc(x, sorted) ==
    IF sorted = <<>> THEN <<x>>
    ELSE IF StrLess(Head(sorted), x) THEN <<x>> \o sorted
    ELSE <<Head(sorted)>> \o InsertDesc(x, Tail(sorted))

\* sorted(list, reverse=True)
RECURSIVE SortedReverse(_)
SortedReverse(list) ==
    IF list = <<>> THEN <<>>
    ELSE InsertDesc(Head(list), SortedReverse(Tail(list)))


(***************************************************************************)
(* The front-matter codec (get_front_matter, get_entry_text and the        *)
(* serialization loop of fix_entry).                                       *)
(***************************************************************************)
FRONT_MATTER_SEP == <<"-", "-", "-">>
FRONT_MATTER_VALUE_SEP == <<":", " ">>
FRONT_MATTER_END == <<"\n">> \o FRONT_MATTER_SEP \o <<"\n">>

KeyDate == <<"d", "a", "t", "e">>
KeyTitle == <<"t", "i", "t", "l", "e">>
\* str(None), as "{}".format(None) writes it
NoneStr == <<"N", "o", "n", "e">>

\* One element of the list get_front_matter returns: None for an empty line
\* (blank), [var, value] for a pair, [var, None] for a key without a value
\* (none).
BlankLine == [blank |-> TRUE, var |-> <<>>, none |-> FALSE, value |-> <<>>]
PairLine(k, v) == [blank |-> FALSE, var |-> k, none |-> FALSE, value |-> v]
NoValueLine(k) == [blank |-> FALSE, var |-> k, none |-> TRUE, value |-> <<>>]

\* the body of get_front_matter's loop for one raw line
ParseLine(line) ==
    LET parts == SplitOnce(line, FRONT_MATTER_VALUE_SEP)
    IN  IF Len(parts) = 2 THEN PairLine(parts[1], parts[2])
        ELSE IF parts[1] = <<>> THEN BlankLine
        ELSE NoValueLine(parts[1])

\* get_front_matter, of the text of the entry's file
get_front_matter(text) ==
    LET begin_index == 4
        end_index == Find(text, FRONT_MATTER_END)
        raw_front_matter == Split(Strip(Slice(text, begin_index, end_index)), <<"\n">>)
    IN  [i \in 1..Len(raw_front_matter) |-> ParseLine(raw_front_matter[i])]

\* get_entry_text, of the text of the entry's file
get_entry_text(text) ==
    LET begin_index == Find(text, FRONT_MATTER_END)
    IN  SliceFrom(text, begin_index + Len(FRONT_MATTER_END))

\* An optional string: <<>> is None, <<s>> is the string s.
None == <<>>
Some(s) == <<s>>

\* the value fix_entry writes for one line: the given date for a date line
LineValue(line, date) ==
    IF line.var = KeyDate /\ date # None THEN date[1]
    ELSE IF line.none THEN NoneStr
    ELSE line.value

\* what the loop of fix_entry adds to new_text for one line
SerializeLine(line, date) ==
    IF line.blank THEN <<"\n">>
    ELSE line.var \o FRONT_MATTER_VALUE_SEP \o LineValue(line, date) \o <<"\n">>

RECURSIVE SerializeLines(_, _)
SerializeLines(front_matter, date) ==
    IF front_matter = <<>> THEN <<>>
    ELSE SerializeLine(Head(front_matter), date)
            \o SerializeLines(Tail(front_matter), date)

\* new_text of fix_entry
Serialize(front_matter, entry_text, date) ==
    FRONT_MATTER_SEP \o <<"\n">>
        \o SerializeLines(front_matter, date)
        \o FRONT_MATTER_SEP \o <<"\n">>
        \o entry_text

\* entry_title when the loop of fix_entry ends: the value of the last title
\* line, None when that line has no value, and unbound when the front matter
\* has no title line
TitleLines(front_matter) ==
    {i \in 1..Len(front_matter) :
        ~front_matter[i].blank /\ front_matter[i].var = KeyTitle}

EntryTitle(front_matter) ==
    LET ts == TitleLines(front_matter)
        last == CHOOSE i \in ts : \A j \in ts : j <= i
    IN  IF ts = {} THEN [bound |-> FALSE, none |-> FALSE, text |-> <<>>]
        ELSE [bound |-> TRUE, none |-> front_matter[last].none,
              text |-> front_matter[last].value]


(***************************************************************************)
(* Program constants.                                                      *)
(***************************************************************************)
SUCCESS == 0
ERR_NONE_FOUND == 1
ERR_TEMPLATE_FAIL == 2
ERR_SELECT_CANCEL == 3
ERR_FILE_EXISTS == 4
ERR_NO_SUCH_CMD == 5
ERR_WRONG_ARGS == 6

\* How far a process is: running, ended by sys.exit(code) or by falling off
\* the end of execute_cmd (code 0), or ended by an exception nobody catches
\* (the interpreter prints the traceback and exits with status 1).
Running == [exited |-> FALSE, code |-> 0, exception |-> ""]
Exit(code) == [exited |-> TRUE, code |-> code, exception |-> ""]
Raise(exception) == [exited |-> TRUE, code |-> 1, exception |-> exception]

ENTRY_EXT == <<".", "m", "d">>

(***************************************************************************)
(* Files and directories.  A directory maps the names of its files to the  *)
(* files; a file is its bytes and its modification time (the clock second  *)
(* of its last write), which filecmp.cmp's signature reads.                *)
(***************************************************************************)
File(text, mtime) == [text |-> text, mtime |-> mtime]

\* the file exists: os.path.isfile
isfile(dir, name) == name \in DOMAIN dir

\* a write or a rename onto `name`: the file there, if any, is replaced
Put(dir, name, file) ==
    [n \in DOMAIN dir \cup {name} |-> IF n = name THEN file ELSE dir[n]]

Remove(dir, name) == [n \in DOMAIN dir \ {name} |-> dir[n]]

\* os.rename / shutil.move within one file system: the destination is
\* replaced without a question, the file keeps its modification time
Rename(dir, old, new) ==
    IF old = new THEN dir ELSE Remove(Put(dir, new, dir[old]), old)

\* os.listdir: the names in some order (every caller sorts what it keeps)
RECURSIVE listdir(_)
listdir(dir) ==
    IF DOMAIN dir = {} THEN <<>>
    ELSE LET n == CHOOSE x \in DOMAIN dir : TRUE
         IN  <<n>> \o listdir(Remove(dir, n))

\* os.path.splitext(name)[0]: the name up to its last dot, unless only dots
\* come before that dot
splitext(name) ==
    LET dots == {i \in 1..Len(name) : name[i] = "."}
        dotIndex == CHOOSE i \in dots : \A j \in dots : j <= i
    IN  IF dots = {} THEN name
        ELSE IF \E k \in 1..(dotIndex - 1) : name[k] # "." THEN SubSeq(name, 1, dotIndex - 1)
        ELSE name

get_entry_file(entry) == entry \o ENTRY_EXT

get_entries(dir) ==
    LET names == listdir(dir)
    IN  [i \in 1..Len(names) |-> splitext(names[i])]

\* A variant of find_entries that keeps an entry when any keyword is found
\* in its name.
find_entries_any(dir, keywords) ==
    LET Match(entry) == \E i \in 1..Len(keywords) : Contains(keywords[i], entry)
        matches == SelectSeq(get_entries(dir), Match)
    IN  IF Len(matches) = 0 THEN <<>> ELSE SortedReverse(matches)

find_entries(dir, keywords) ==
    LET Match(entry) == \A i \in 1..Len(keywords) : Contains(keywords[i], entry)
        matches == SelectSeq(get_entries(dir), Match)
    IN  IF Len(matches) = 0 THEN <<>> ELSE SortedReverse(matches)

\* get_text_of needs the file of every entry: open() raises FileNotFoundError
\* for a name of get_entries that has no file with the entry extension
SearchReadable(dir) ==
    \A i \in 1..Len(get_entries(dir)) :
        isfile(dir, get_entry_file(get_entries(dir)[i]))

\* A variant of search_entries that looks for the keywords as typed in the
\* lower-case text.
search_entries_as_typed(dir, keywords) ==
    LET Match(entry) ==
            LET text == dir[get_entry_file(entry)].text
            IN  \A i \in 1..Len(keywords) : Contains(keywords[i], Lower(text))
        matches == SelectSeq(get_entries(dir), Match)
    IN  IF Len(matches) = 0 THEN <<>> ELSE SortedReverse(matches)

search_entries(dir, keywords) ==
    LET Match(entry) ==
            LET text == dir[get_entry_file(entry)].text
            IN  \A i \in 1..Len(keywords) : Contains(Lower(keywords[i]), Lower(text))
        matches == SelectSeq(get_entries(dir), Match)
    IN  IF Len(matches) = 0 THEN <<>> ELSE SortedReverse(matches)

(***************************************************************************)
(* int(ans)                                                                *)
(***************************************************************************)
Digits == {"0", "1", "2", "3", "4", "5", "6", "7", "8", "9"}

DigitValue(c) == Ord(c) - Ord("0")

\* the digits of a literal: single underscores may stand between two digits
IsDigits(s) ==
    /\ s # <<>>
    /\ \A i \in 1..Len(s) : s[i] \in Digits \cup {"_"}
    /\ s[1] # "_" /\ s[Len(s)] # "_"
    /\ \A i \in 1..(Len(s) - 1) : ~(s[i] = "_" /\ s[i + 1] = "_")

RECURSIVE DigitsValue(_, _)
DigitsValue(s, acc) ==
    IF s = <<>> THEN acc
    ELSE IF Head(s) = "_" THEN DigitsValue(Tail(s), acc)
    ELSE DigitsValue(Tail(s), 10 * acc + DigitValue(Head(s)))

\* int(s): [ok |-> FALSE] stands for ValueError
ParseInt(s) ==
    LET t == Strip(s)
        signed == t # <<>> /\ t[1] \in {"+", "-"}
        body == IF signed THEN Tail(t) ELSE t
    IN  IF ~IsDigits(body) THEN [ok |-> FALSE, value |-> 0]
        ELSE [ok |-> TRUE,
              value |-> IF signed /\ t[1] = "-" THEN 0 - DigitsValue(body, 0)
                        ELSE DigitsValue(body, 0)]


(***************************************************************************)
(* The clock.  One clock second is one step of `clock`; every run of the   *)
(* model lies within one day.                                              *)
(***************************************************************************)
Today == <<"2", "0", "2", "4", "-", "0", "1", "-", "0", "2">>
Yesterday == <<"2", "0", "2", "4", "-", "0", "1", "-", "0", "1">>

DigitChar(n) ==
    CASE n = 0 -> "0" [] n = 1 -> "1" [] n = 2 -> "2" [] n = 3 -> "3"
      [] n = 4 -> "4" [] n = 5 -> "5" [] n = 6 -> "6" [] n = 7 -> "7"
      [] n = 8 -> "8" [] n = 9 -> "9"

\* str(n) for n >= 0
RECURSIVE Decimal(_)
Decimal(n) ==
    IF n < 10 THEN <<DigitChar(n)>>
    ELSE Decimal(n \div 10) \o <<DigitChar(n % 10)>>

\* time.strftime("%F")
strftime_F(now) == Today

\* time.strftime("%F %T"): the seconds of the model start at 10:00:00
strftime_FT(now) ==
    Today \o <<" ", "1", "0", ":", "0", "0", ":">>
          \o <<DigitChar(now \div 10), DigitChar(now % 10)>>

\* int(time.time()): 2024-01-02 10:00:00 UTC is 1704189600
time_time(now) == 1704189600 + now

(***************************************************************************)
(* The collaborators.                                                      *)
(***************************************************************************)
\* What the slug normaliser prints for a title: lower case, "-" for a blank,
\* nothing for a character that is no letter, digit or "-"; then a newline.
\* When it fails it prints nothing.
SlugChar(c) ==
    IF c = " " THEN <<"-">>
    ELSE IF LowerChar(c) \in Digits \cup {"-", "a", "b", "c", "d", "e", "f", "i",
            "l", "m", "n", "o", "q", "r", "s", "t", "u", "x", "y", "z"}
    THEN <<LowerChar(c)>>
    ELSE <<>>

RECURSIVE SlugOf(_)
SlugOf(title) ==
    IF title = <<>> THEN <<>> ELSE SlugChar(Head(title)) \o SlugOf(Tail(title))

\* get_shell([SLUG_CMD, title]): the output stripped, and whether the command
\* exited with 0
get_shell(title, ok) ==
    LET out == IF ok THEN SlugOf(title) \o <<"\n">> ELSE <<>>
    IN  [out |-> Strip(out), was_successful |-> ok]

\* The file the templater writes for a title: title and date, an empty body.
TemplateText(title, now) ==
    FRONT_MATTER_SEP \o <<"\n">>
        \o KeyTitle \o FRONT_MATTER_VALUE_SEP \o title \o <<"\n">>
        \o KeyDate \o FRONT_MATTER_VALUE_SEP \o strftime_FT(now) \o <<"\n">>
        \o FRONT_MATTER_SEP \o <<"\n">>

\* The bodies an editor session may leave in the scratch file.
EditorBodies == { <<"a", "b", "\n">>, <<"x", "y", "\n">> }

\* the text with its body (what follows the closing separator) replaced
SetBody(text, body) ==
    LET end == Find(text, FRONT_MATTER_END)
    IN  IF end = -1 THEN text ELSE SubSeq(text, 1, end + Len(FRONT_MATTER_END)) \o body

(***************************************************************************)
(* fix_entry, on the journal directory.  The result is the directory it    *)
(* leaves and the exception that ended it ("" when it returned).           *)
(***************************************************************************)
FixResult(dir, exception, check_entry) ==
    [dir |-> dir, exception |-> exception, check_entry |-> check_entry]

fix_entry(dir, entry, date, now, slug_ok) ==
    LET entry_file == get_entry_file(entry)
    IN  IF ~isfile(dir, entry_file) THEN FixResult(dir, "FileNotFoundError", <<>>)
        ELSE
        LET text == dir[entry_file].text
            front_matter == get_front_matter(text)
            entry_text == get_entry_text(text)
            new_text == Serialize(front_matter, entry_text, date)
            written == Put(dir, entry_file, File(new_text, now))
            entry_title == EntryTitle(front_matter)
        IN  IF date = None THEN FixResult(written, "AttributeError", <<>>)
            ELSE IF ~entry_title.bound THEN FixResult(written, "UnboundLocalError", <<>>)
            ELSE IF entry_title.none THEN FixResult(written, "TypeError", <<>>)
            ELSE
            LET check_entry == Split(date[1], <<" ">>)[1] \o <<"-">>
                                  \o get_shell(entry_title.text, slug_ok).out
            IN  IF entry # check_entry
                THEN FixResult(Rename(written, entry_file, get_entry_file(check_entry)),
                               "", check_entry)
                ELSE FixResult(written, "", check_entry)

\* update_time
update_time(dir, entry, now, slug_ok) ==
    fix_entry(dir, entry, Some(strftime_FT(now)), now, slug_ok)

(***************************************************************************)
(* The scratch file of an edit session.                                    *)
(***************************************************************************)
TMP_PREFIX == <<"j", "c", "t", "l">>

\* A variant of tmp_file that stamps the scratch file with the minute.
tmp_file_per_minute(now) ==
    TMP_PREFIX \o <<"-">> \o Decimal(time_time(now) \div 60) \o ENTRY_EXT

\* the name __generate_entry_tmpfile gives the scratch file, within TMP_DIR
tmp_file(now) == TMP_PREFIX \o <<"-">> \o Decimal(time_time(now)) \o ENTRY_EXT

\* A variant of filecmp that stops at the signatures (size and modification
\* time) and never reads the files.
filecmp_signature_only(f1, f2) ==
    Len(f1.text) = Len(f2.text) /\ f1.mtime = f2.mtime

\* filecmp.cmp(f1, f2) of two regular files, shallow as by default: equal
\* signatures (size, modification time) are taken for equal files, different
\* sizes for different files, and only then the bytes are compared
filecmp(f1, f2) ==
    IF Len(f1.text) = Len(f2.text) /\ f1.mtime = f2.mtime THEN TRUE
    ELSE IF Len(f1.text) # Len(f2.text) THEN FALSE
    ELSE f1.text = f2.text


(***************************************************************************)
(* The journal directories the model starts from, and the inputs.          *)
(***************************************************************************)
NL == <<"\n">>
OldDate == Yesterday \o <<" ", "0", "9", ":", "0", "0", ":", "0", "0">>
MorningDate == Today \o <<" ", "0", "9", ":", "0", "0", ":", "0", "0">>

\* the text of an entry file: separator, front-matter lines, separator, body
EntryFile(lines, body) ==
    FRONT_MATTER_SEP \o NL \o Join(lines, NL) \o (IF lines = <<>> THEN <<>> ELSE NL)
        \o FRONT_MATTER_SEP \o NL \o body

TitleA == KeyTitle \o FRONT_MATTER_VALUE_SEP \o <<"a">>
TitleB == KeyTitle \o FRONT_MATTER_VALUE_SEP \o <<"b">>
Draft == <<"d", "r", "a", "f", "t">>

\* title a, written yesterday
TextOldA == EntryFile(<<TitleA, KeyDate \o FRONT_MATTER_VALUE_SEP \o OldDate>>,
                      <<"a", "b", "\n">>)
\* title a, written this morning
TextTodayA == EntryFile(<<TitleA, KeyDate \o FRONT_MATTER_VALUE_SEP \o MorningDate>>,
                        <<"T", "O", "D", "O", "\n">>)
\* title b, with a key that has no value and an empty line
TextTodayB == EntryFile(<<TitleB, Draft, <<>>, KeyDate \o FRONT_MATTER_VALUE_SEP \o MorningDate>>,
                        <<"a", "b", "\n">>)

NameOldA == Yesterday \o <<"-", "a">>
NameTodayA == Today \o <<"-", "a">>
NameTodayB == Today \o <<"-", "b">>
NotesTxt == <<"n", "o", "t", "e", "s", ".", "t", "x", "t">>

\* a time before the first second of the model
Earlier == 0 - 1

OneFile(name, text) == [n \in {name} |-> File(text, Earlier)]

DirEmpty == [n \in {} |-> File(<<>>, Earlier)]
DirOne == OneFile(get_entry_file(NameOldA), TextOldA)
DirThree ==
    Put(Put(DirOne, get_entry_file(NameTodayA), File(TextTodayA, Earlier)),
        get_entry_file(NameTodayB), File(TextTodayB, Earlier))
DirNotes ==
    Put(OneFile(get_entry_file(NameTodayB), TextTodayB), NotesTxt,
        File(<<"a", "b", "\n">>, Earlier))

InitialDirs == {DirEmpty, DirOne, DirThree, DirNotes}

new_aliases == { <<"n", "e", "w">>, <<"n">> }
edit_aliases == { <<"e", "d", "i", "t">>, <<"e">> }
search_aliases == { <<"s", "e", "a", "r", "c", "h">>, <<"s">> }
Help == <<"h", "e", "l", "p">>

\* the command names the operator types
Commands == { <<"n", "e", "w">>, <<"e">>, <<"s", "e", "a", "r", "c", "h">>,
              Help, <<"r", "m">> }

TemplateName == <<"e", "n", "t", "r", "y">>

\* the argument lists the operator types after each command
NewArguments ==
    { <<TemplateName>>, <<TemplateName, <<"a">>>>, <<TemplateName, <<"a">>, <<"b">>>> }
EditArguments ==
    { <<>>, << <<"a">> >>, << <<"-", "0">> >>, << <<"b">> >>, << <<"z">> >> }
SearchArguments ==
    { <<>>, << <<"t", "o", "d", "o">> >>, << <<"a", "b">> >>, << <<"z">> >> }
OtherArguments == { <<>>, << <<"a">> >> }

\* What one read of the terminal gives: a line, an interrupt (Ctrl-C) or the
\* end of the input (Ctrl-D).
Line(text) == [kind |-> "line", text |-> text]
Interrupt == [kind |-> "interrupt", text |-> <<>>]
EndOfInput == [kind |-> "eof", text |-> <<>>]

SelectLines ==
    { <<>>, <<"q">>, <<"q", "u", "i", "t">>, <<"Q">>, <<"x">>, <<"q", " ">>,
      <<"0">>, <<"1">>, <<"2">>, <<"3">>, <<"4">>, <<"-", "1">>, <<" ", "2">>,
      <<"1", "_", "0">>, <<"1", ".", "0">> }

SelectInputs == {Line(t) : t \in SelectLines} \cup {Interrupt, EndOfInput}

YnLines ==
    { <<"y">>, <<"Y", "E", "S">>, <<"n">>, <<"N", "o">>, <<>>, <<"y", " ">>,
      <<"o", "u", "i">> }

YnInputs == {Line(t) : t \in YnLines} \cup {Interrupt, EndOfInput}

(***************************************************************************)
(* The state.                                                              *)
(***************************************************************************)
\* The invocations of jctl.  Each is one process that runs one command.
Procs == {1, 2}

VARIABLES
    jdir,        \* the journal directory: file name -> file
    tmpdir,      \* TMP_DIR: file name -> file
    clock,       \* the clock second
    concurrent,  \* whether invocations may overlap (or run one after the other)
    pc,          \* where each process is
    command,     \* self.command
    arguments,   \* self.arguments
    matches,     \* the match set of cmd_edit / cmd_search
    reads,       \* selection inputs read by interactive_number_chooser (saturates)
    said,        \* the error the last turn of the chooser's loop printed ("" for none)
    chosen,      \* what interactive_number_chooser returned: <<>> before it returns
    entry,       \* the entry of cmd_new / edit_entry
    tmpfile,     \* the scratch file of edit_entry
    opened,      \* the clock second at which edit_entry made the scratch file (-1 before)
    check_entry, \* the name fix_entry computed for the entry (<<>> before it did)
    status,      \* Running, or how the process ended
    trace,       \* what the process did, in order
    codec        \* the codec specification's state

procVars == <<pc, command, arguments, matches, reads, said, chosen, entry, tmpfile, opened,
              check_entry, status, trace>>
vars == <<jdir, tmpdir, clock, concurrent, procVars, codec>>

NoCodec == [step |-> "off", text |-> <<>>, front_matter |-> <<>>,
            entry_text |-> <<>>, new_text |-> <<>>]

InitProcs ==
    /\ pc = [p \in Procs |-> "idle"]
    /\ command = [p \in Procs |-> <<>>]
    /\ arguments = [p \in Procs |-> <<>>]
    /\ matches = [p \in Procs |-> <<>>]
    /\ reads = [p \in Procs |-> 0]
    /\ said = [p \in Procs |-> ""]
    /\ chosen = [p \in Procs |-> <<>>]
    /\ entry = [p \in Procs |-> <<>>]
    /\ tmpfile = [p \in Procs |-> <<>>]
    /\ opened = [p \in Procs |-> -1]
    /\ check_entry = [p \in Procs |-> <<>>]
    /\ status = [p \in Procs |-> Running]
    /\ trace = [p \in Procs |-> <<>>]

Init ==
    /\ jdir \in InitialDirs
    /\ tmpdir = DirEmpty
    /\ clock = 0
    /\ concurrent = FALSE
    /\ InitProcs
    /\ codec = NoCodec


(***************************************************************************)
(* The steps of a process.  A step runs the program from one point where   *)
(* it blocks (on the terminal, the editor or the templater) to the next.   *)
(***************************************************************************)
\* Process p may start: in a run without overlap, once the ones before it
\* have ended.
CanStart(p) ==
    /\ pc[p] = "idle"
    /\ concurrent \/ \A q \in Procs : q < p => pc[q] = "gone"

\* p ends with status st, having done events
End(p, st, events) ==
    /\ pc' = [pc EXCEPT ![p] = "done"]
    /\ status' = [status EXCEPT ![p] = st]
    /\ trace' = [trace EXCEPT ![p] = @ \o events]

\* p goes on to label, having done events
Goto(p, label, events) ==
    /\ pc' = [pc EXCEPT ![p] = label]
    /\ status' = status
    /\ trace' = [trace EXCEPT ![p] = @ \o events]

\* self.error(message, exit_code)
error(p, exit_code, events) == End(p, Exit(exit_code), events \o <<"error">>)

\* p ends as fix_entry ended: by its exception, or with the status of a
\* process that runs to its end
EndFixed(p, r, events) ==
    /\ check_entry' = [check_entry EXCEPT ![p] = r.check_entry]
    /\ End(p, IF r.exception = "" THEN Exit(SUCCESS) ELSE Raise(r.exception), events)

\* edit_entry up to the call of the editor: the entry is copied to the scratch
\* file (__generate_entry_tmpfile), and the editor is started on it
edit_entry(p, e, events) ==
    /\ entry' = [entry EXCEPT ![p] = e]
    /\ tmpfile' = [tmpfile EXCEPT ![p] = tmp_file(clock)]
    /\ opened' = [opened EXCEPT ![p] = clock]
    /\ IF isfile(jdir, get_entry_file(e))
       THEN /\ tmpdir' = Put(tmpdir, tmp_file(clock),
                             File(jdir[get_entry_file(e)].text, clock))
            /\ Goto(p, "editor", events \o <<"copy", "editor">>)
       ELSE /\ tmpdir' = tmpdir
            /\ End(p, Raise("FileNotFoundError"), events)
    /\ UNCHANGED jdir

\* A variant of interactive_number_chooser without the shortcut for a list
\* of one option.
chooser_always_prompts(p, options, events) ==
    /\ Goto(p, "select", events \o <<"numbered_list">>)
    /\ UNCHANGED <<jdir, tmpdir, chosen, entry, tmpfile, opened>>

\* interactive_number_chooser up to its first read, and what its caller
\* does with the index when it returns at once
interactive_number_chooser(p, options, events) ==
    IF Len(options) = 1
    THEN /\ chosen' = [chosen EXCEPT ![p] = <<0>>]
         /\ edit_entry(p, options[1], events)
    ELSE /\ Goto(p, "select", events \o <<"numbered_list">>)
         /\ UNCHANGED <<jdir, tmpdir, chosen, entry, tmpfile, opened>>

\* One turn of the loop of interactive_number_chooser: whether it returns,
\* the value returned, and the error printed.
Return(value) == [returns |-> TRUE, value |-> value, said |-> ""]
Continue(message) == [returns |-> FALSE, value |-> 0, said |-> message]

\* Variants of chooser_turn: "q" is no special value; a number out of range
\* ends the selection; the number typed is taken for the index.
chooser_turn_q_is_text(options, input) ==
    LET ret_bad_input == -1
        start_num == 1
        int_ans == ParseInt(input.text)
        index == int_ans.value - start_num
    IN  IF input.kind # "line" THEN Return(ret_bad_input)
        ELSE IF input.text = <<>> \/ input.text = <<"q", "u", "i", "t">>
            THEN Return(ret_bad_input)
        ELSE IF ~int_ans.ok THEN Continue("ERROR: not an integer")
        ELSE IF 0 <= index /\ index < Len(options) THEN Return(index)
        ELSE Continue("ERROR: out of range")

chooser_turn_range_ends(options, input) ==
    LET ret_bad_input == -1
        start_num == 1
        int_ans == ParseInt(input.text)
        index == int_ans.value - start_num
    IN  IF input.kind # "line" THEN Return(ret_bad_input)
        ELSE IF input.text = <<>> \/ input.text = <<"q", "u", "i", "t">>
                 \/ input.text = <<"q">> THEN Return(ret_bad_input)
        ELSE IF ~int_ans.ok THEN Continue("ERROR: not an integer")
        ELSE IF 0 <= index /\ index < Len(options) THEN Return(index)
        ELSE Return(ret_bad_input)

chooser_turn_one_based(options, input) ==
    LET ret_bad_input == -1
        int_ans == ParseInt(input.text)
        index == int_ans.value
    IN  IF input.kind # "line" THEN Return(ret_bad_input)
        ELSE IF input.text = <<>> \/ input.text = <<"q", "u", "i", "t">>
                 \/ input.text = <<"q">> THEN Return(ret_bad_input)
        ELSE IF ~int_ans.ok THEN Continue("ERROR: not an integer")
        ELSE IF 0 <= index /\ index < Len(options) THEN Return(index)
        ELSE Continue("ERROR: out of range")

chooser_turn(options, input) ==
    LET ret_bad_input == -1
        start_num == 1
        int_ans == ParseInt(input.text)
        index == int_ans.value - start_num
    IN  IF input.kind # "line" THEN Return(ret_bad_input)
        ELSE IF input.text = <<>> \/ input.text = <<"q", "u", "i", "t">>
                 \/ input.text = <<"q">> THEN Return(ret_bad_input)
        ELSE IF ~int_ans.ok THEN Continue("ERROR: not an integer")
        ELSE IF 0 <= index /\ index < Len(options) THEN Return(index)
        ELSE Continue("ERROR: out of range")

\* what cmd_edit and cmd_search do with the index the chooser returned
open_chosen(p, options, index) ==
    IF index = -1
    THEN /\ End(p, Exit(ERR_SELECT_CANCEL), <<"message">>)
         /\ UNCHANGED <<jdir, tmpdir, entry, tmpfile, opened>>
    ELSE edit_entry(p, options[index + 1], <<>>)

\* execute_cmd with a command that is no command
NoSuchCmd(p) ==
    /\ CanStart(p)
    /\ \E c \in Commands, a \in OtherArguments :
        /\ c \notin new_aliases \cup edit_aliases \cup search_aliases \cup {Help}
        /\ command' = [command EXCEPT ![p] = c]
        /\ arguments' = [arguments EXCEPT ![p] = a]
        /\ error(p, ERR_NO_SUCH_CMD, <<>>)
    /\ UNCHANGED <<jdir, tmpdir, clock, concurrent, matches, reads, said, chosen, entry,
                   tmpfile, opened, check_entry, codec>>

\* execute_cmd with "help"
CmdHelp(p) ==
    /\ CanStart(p)
    /\ \E a \in OtherArguments :
        /\ command' = [command EXCEPT ![p] = Help]
        /\ arguments' = [arguments EXCEPT ![p] = a]
        /\ End(p, Exit(SUCCESS), <<"print">>)
    /\ UNCHANGED <<jdir, tmpdir, clock, concurrent, matches, reads, said, chosen, entry,
                   tmpfile, opened, check_entry, codec>>

\* A variant of CmdNew that does not look whether the entry's file exists.
CmdNew_unchecked(p) ==
    /\ CanStart(p)
    /\ \E c \in Commands \cap new_aliases, a \in NewArguments, slug_ok \in BOOLEAN :
        /\ command' = [command EXCEPT ![p] = c]
        /\ arguments' = [arguments EXCEPT ![p] = a]
        /\ IF Len(a) < 2
           THEN /\ error(p, ERR_WRONG_ARGS, <<>>)
                /\ entry' = entry
           ELSE LET entry_title == Join(Tail(a), <<" ">>)
                    slug == get_shell(entry_title, slug_ok).out
                    entry_name == strftime_F(clock) \o <<"-">> \o slug
                IN  /\ entry' = [entry EXCEPT ![p] = entry_name]
                    /\ Goto(p, "templater", <<"slug", "isfile", "templater">>)
    /\ UNCHANGED <<jdir, tmpdir, clock, concurrent, matches, reads, said, chosen, tmpfile, opened,
                   check_entry, codec>>

\* cmd_new up to the call of the templater
CmdNew(p) ==
    /\ CanStart(p)
    /\ \E c \in Commands \cap new_aliases, a \in NewArguments, slug_ok \in BOOLEAN :
        /\ command' = [command EXCEPT ![p] = c]
        /\ arguments' = [arguments EXCEPT ![p] = a]
        /\ IF Len(a) < 2
           THEN /\ error(p, ERR_WRONG_ARGS, <<>>)
                /\ entry' = entry
           ELSE LET entry_title == Join(Tail(a), <<" ">>)
                    slug == get_shell(entry_title, slug_ok).out
                    entry_name == strftime_F(clock) \o <<"-">> \o slug
                IN  /\ entry' = [entry EXCEPT ![p] = entry_name]
                    /\ IF isfile(jdir, get_entry_file(entry_name))
                       THEN error(p, ERR_FILE_EXISTS, <<"slug", "isfile">>)
                       ELSE Goto(p, "templater", <<"slug", "isfile", "templater">>)
    /\ UNCHANGED <<jdir, tmpdir, clock, concurrent, matches, reads, said, chosen, tmpfile, opened,
                   check_entry, codec>>

\* the templater writes the file of the new entry
TemplaterWrite(p) ==
    /\ pc[p] = "templater"
    /\ jdir' = Put(jdir, get_entry_file(entry[p]),
                   File(TemplateText(Join(Tail(arguments[p]), <<" ">>), clock), clock))
    /\ UNCHANGED <<tmpdir, clock, concurrent, procVars, codec>>

\* the templater exits, and cmd_new goes on to its end
TemplaterExit(p) ==
    /\ pc[p] = "templater"
    /\ \E ret \in {0, 1} :
        IF ret = 0
        THEN \E slug_ok \in BOOLEAN :
             LET r == update_time(jdir, entry[p], clock, slug_ok)
             IN  /\ jdir' = r.dir
                 /\ EndFixed(p, r, <<"update_time">>)
        ELSE /\ jdir' = jdir
             /\ check_entry' = check_entry
             /\ error(p, ERR_TEMPLATE_FAIL, <<>>)
    /\ UNCHANGED <<tmpdir, clock, concurrent, command, arguments, matches, reads, said,
                   chosen, entry, tmpfile, opened, codec>>

\* A variant of edit_matches that ends as cmd_search does when nothing is
\* found.
edit_matches_as_search(p, found) ==
    IF Len(found) = 0
    THEN /\ End(p, Exit(SUCCESS), <<"listdir", "message">>)
         /\ UNCHANGED <<jdir, tmpdir, chosen, entry, tmpfile, opened>>
    ELSE IF Len(found) > 1
    THEN interactive_number_chooser(p, found, <<"listdir", "message">>)
    ELSE /\ edit_entry(p, found[1], <<"listdir">>)
         /\ chosen' = chosen

\* cmd_edit from the match set on
edit_matches(p, found) ==
    IF Len(found) = 0
    THEN /\ End(p, Exit(ERR_NONE_FOUND), <<"listdir", "message">>)
         /\ UNCHANGED <<jdir, tmpdir, chosen, entry, tmpfile, opened>>
    ELSE IF Len(found) > 1
    THEN interactive_number_chooser(p, found, <<"listdir", "message">>)
    ELSE /\ edit_entry(p, found[1], <<"listdir">>)
         /\ chosen' = chosen

\* A variant of CmdEdit that lists the journal directory before it looks at
\* its arguments.
CmdEdit_lists_first(p) ==
    /\ CanStart(p)
    /\ \E c \in Commands \cap edit_aliases, a \in EditArguments :
        /\ command' = [command EXCEPT ![p] = c]
        /\ arguments' = [arguments EXCEPT ![p] = a]
        /\ matches' = [matches EXCEPT ![p] = find_entries(jdir, a)]
        /\ IF a = <<>>
           THEN /\ error(p, ERR_WRONG_ARGS, <<"listdir">>)
                /\ UNCHANGED <<jdir, tmpdir, chosen, entry, tmpfile, opened>>
           ELSE edit_matches(p, find_entries(jdir, a))
    /\ UNCHANGED <<clock, concurrent, reads, said, check_entry, codec>>

\* cmd_edit up to the first read of the terminal or the call of the editor
CmdEdit(p) ==
    /\ CanStart(p)
    /\ \E c \in Commands \cap edit_aliases, a \in EditArguments :
        /\ command' = [command EXCEPT ![p] = c]
        /\ arguments' = [arguments EXCEPT ![p] = a]
        /\ IF a = <<>>
           THEN /\ error(p, ERR_WRONG_ARGS, <<>>)
                /\ UNCHANGED <<jdir, tmpdir, matches, chosen, entry, tmpfile, opened>>
           ELSE /\ matches' = [matches EXCEPT ![p] = find_entries(jdir, a)]
                /\ edit_matches(p, find_entries(jdir, a))
    /\ UNCHANGED <<clock, concurrent, reads, said, check_entry, codec>>

\* cmd_search from the match set to the yes/no prompt
search_matches(p, matches_all) ==
    IF Len(matches_all) = 0
    THEN End(p, Exit(SUCCESS), <<"listdir", "read", "message">>)
    ELSE Goto(p, "yn_open", <<"listdir", "read", "message", "yn_prompt">>)

\* cmd_search up to the yes/no prompt
CmdSearch(p) ==
    /\ CanStart(p)
    /\ \E c \in Commands \cap search_aliases, a \in SearchArguments :
        /\ command' = [command EXCEPT ![p] = c]
        /\ arguments' = [arguments EXCEPT ![p] = a]
        /\ IF ~SearchReadable(jdir)
           THEN /\ End(p, Raise("FileNotFoundError"), <<"listdir", "read">>)
                /\ matches' = matches
           ELSE /\ matches' = [matches EXCEPT ![p] = search_entries(jdir, a)]
                /\ search_matches(p, search_entries(jdir, a))
    /\ UNCHANGED <<jdir, tmpdir, clock, concurrent, reads, said, chosen, entry, tmpfile, opened,
                   check_entry, codec>>

\* A variant of __yn_prompt that takes every answer but a no for a yes.
yn_prompt_default_yes(input) ==
    IF input.kind # "line" THEN -1
    ELSE LET yn == Lower(input.text)
         IN  IF yn = <<"n">> \/ yn = <<"n", "o">> THEN 1 ELSE 0

\* __yn_prompt: 0 for yes, 1 for no, -1 for anything else
yn_prompt(input) ==
    IF input.kind # "line" THEN -1
    ELSE LET yn == Lower(input.text)
         IN  IF yn = <<"y">> \/ yn = <<"y", "e", "s">> THEN 0
             ELSE IF yn = <<"n">> \/ yn = <<"n", "o">> THEN 1
             ELSE -1

\* cmd_search from the answer to "Open a matched entry?"
YnOpen(p, input) ==
    /\ pc[p] = "yn_open"
    /\ LET yn == yn_prompt(input)
       IN  IF yn = 0 THEN interactive_number_chooser(p, matches[p], <<>>)
           ELSE /\ End(p, Exit(SUCCESS), IF yn = 1 THEN <<"message", "print">> ELSE <<"message">>)
                /\ UNCHANGED <<jdir, tmpdir, chosen, entry, tmpfile, opened>>
    /\ UNCHANGED <<clock, concurrent, command, arguments, matches, reads, said, check_entry, codec>>

\* A variant of Select whose loop gives up at the second input it rejects.
Select_two_tries(p, input) ==
    /\ pc[p] = "select"
    /\ reads' = [reads EXCEPT ![p] = IF @ < MaxReads THEN @ + 1 ELSE @]
    /\ LET turn == chooser_turn(matches[p], input)
           last == IF ~turn.returns /\ reads[p] >= 1 THEN Return(-1) ELSE turn
       IN  /\ said' = [said EXCEPT ![p] = turn.said]
           /\ IF last.returns
              THEN /\ chosen' = [chosen EXCEPT ![p] = <<last.value>>]
                   /\ open_chosen(p, matches[p], last.value)
              ELSE UNCHANGED <<jdir, tmpdir, chosen, entry, tmpfile, opened, pc, status, trace>>
    /\ UNCHANGED <<clock, concurrent, command, arguments, matches, check_entry, codec>>

\* one turn of the loop of interactive_number_chooser, and what the caller
\* (cmd_edit, cmd_search) does when the chooser returns
Select(p, input) ==
    /\ pc[p] = "select"
    /\ reads' = [reads EXCEPT ![p] = IF @ < MaxReads THEN @ + 1 ELSE @]
    /\ LET turn == chooser_turn(matches[p], input)
       IN  /\ said' = [said EXCEPT ![p] = turn.said]
           /\ IF turn.returns
              THEN /\ chosen' = [chosen EXCEPT ![p] = <<turn.value>>]
                   /\ open_chosen(p, matches[p], turn.value)
              ELSE UNCHANGED <<jdir, tmpdir, chosen, entry, tmpfile, opened, pc, status, trace>>
    /\ UNCHANGED <<clock, concurrent, command, arguments, matches, check_entry, codec>>

\* the editor saves the scratch file
EditorSave(p) ==
    /\ pc[p] = "editor"
    /\ isfile(tmpdir, tmpfile[p])
    /\ \E body \in EditorBodies :
        tmpdir' = Put(tmpdir, tmpfile[p],
                      File(SetBody(tmpdir[tmpfile[p]].text, body), clock))
    /\ UNCHANGED <<jdir, clock, concurrent, procVars, codec>>

\* the editor exits: edit_entry from filecmp.cmp to the yes/no prompt
EditorExit(p) ==
    /\ pc[p] = "editor"
    /\ LET entry_file == get_entry_file(entry[p])
       IN  IF ~isfile(jdir, entry_file) \/ ~isfile(tmpdir, tmpfile[p])
           THEN /\ End(p, Raise("FileNotFoundError"), <<>>)
                /\ UNCHANGED <<jdir, tmpdir>>
           ELSE IF filecmp(jdir[entry_file], tmpdir[tmpfile[p]])
           THEN /\ End(p, Exit(SUCCESS), <<"cmp", "message">>)
                /\ UNCHANGED <<jdir, tmpdir>>
           ELSE /\ jdir' = Put(jdir, entry_file, tmpdir[tmpfile[p]])
                /\ tmpdir' = Remove(tmpdir, tmpfile[p])
                /\ Goto(p, "yn_time", <<"cmp", "move", "message", "yn_prompt">>)
    /\ UNCHANGED <<clock, concurrent, command, arguments, matches, reads, said, chosen,
                   entry, tmpfile, opened, check_entry, codec>>

\* edit_entry from the answer to "Update timestamp?"
YnTime(p, input) ==
    /\ pc[p] = "yn_time"
    /\ IF yn_prompt(input) = 0
       THEN \E slug_ok \in BOOLEAN :
            LET r == update_time(jdir, entry[p], clock, slug_ok)
            IN  /\ jdir' = r.dir
                /\ EndFixed(p, r, <<"update_time">>)
       ELSE /\ jdir' = jdir
            /\ check_entry' = check_entry
            /\ End(p, Exit(SUCCESS), <<"message">>)
    /\ UNCHANGED <<tmpdir, clock, concurrent, command, arguments, matches, reads, said,
                   chosen, entry, tmpfile, opened, codec>>

\* The process that ended is gone, and with it all it held in memory.
Reap(p) ==
    /\ pc[p] = "done"
    /\ pc' = [pc EXCEPT ![p] = "gone"]
    /\ command' = [command EXCEPT ![p] = <<>>]
    /\ arguments' = [arguments EXCEPT ![p] = <<>>]
    /\ matches' = [matches EXCEPT ![p] = <<>>]
    /\ reads' = [reads EXCEPT ![p] = 0]
    /\ said' = [said EXCEPT ![p] = ""]
    /\ chosen' = [chosen EXCEPT ![p] = <<>>]
    /\ entry' = [entry EXCEPT ![p] = <<>>]
    /\ tmpfile' = [tmpfile EXCEPT ![p] = <<>>]
    /\ opened' = [opened EXCEPT ![p] = -1]
    /\ check_entry' = [check_entry EXCEPT ![p] = <<>>]
    /\ status' = [status EXCEPT ![p] = Running]
    /\ trace' = [trace EXCEPT ![p] = <<>>]
    /\ UNCHANGED <<jdir, tmpdir, clock, concurrent, codec>>

\* a second passes
Tick ==
    /\ clock < MaxSec
    /\ clock' = clock + 1
    /\ UNCHANGED <<jdir, tmpdir, concurrent, procVars, codec>>

Next ==
    \/ Tick
    \/ \E p \in Procs :
        \/ NoSuchCmd(p)
        \/ CmdHelp(p)
        \/ CmdNew(p)
        \/ TemplaterWrite(p)
        \/ TemplaterExit(p)
        \/ CmdEdit(p)
        \/ CmdSearch(p)
        \/ EditorSave(p)
        \/ EditorExit(p)
        \/ \E input \in YnInputs : YnOpen(p, input) \/ YnTime(p, input)
        \/ \E input \in SelectInputs : Select(p, input)
        \/ Reap(p)

Spec == Init /\ [][Next]_vars

(***************************************************************************)
(* The codec on its own: a well-formed text is parsed (get_front_matter,   *)
(* get_entry_text) and then written again by the loop of fix_entry with    *)
(* no date given.                                                          *)
(***************************************************************************)
\* the front-matter lines of the texts: pairs, a pair whose value holds the
\* separator, a key without a value, an empty line
CodecLines ==
    { TitleA, KeyDate \o FRONT_MATTER_VALUE_SEP \o OldDate,
      <<"k", ":", " ", "a", ":", " ", "b">>, Draft, <<>> }

CodecBodies == { <<>>, <<"a", "\n", "-", "-", "-", "\n", "b">> }

RECURSIVE LineLists(_)
LineLists(n) ==
    IF n = 0 THEN { <<>> }
    ELSE LineLists(n - 1)
            \cup { Append(ls, l) : ls \in LineLists(n - 1), l \in CodecLines }

WellFormedTexts ==
    { EntryFile(ls, body) : ls \in LineLists(MaxLines), body \in CodecBodies }

InitCodec ==
    /\ jdir = DirEmpty
    /\ tmpdir = DirEmpty
    /\ clock = 0
    /\ concurrent = FALSE
    /\ InitProcs
    /\ \E text \in WellFormedTexts : codec = [NoCodec EXCEPT !.step = "text", !.text = text]

CodecParse ==
    /\ codec.step = "text"
    /\ codec' = [codec EXCEPT !.step = "parsed",
                              !.front_matter = get_front_matter(codec.text),
                              !.entry_text = get_entry_text(codec.text)]
    /\ UNCHANGED <<jdir, tmpdir, clock, concurrent, procVars>>

CodecSerialize ==
    /\ codec.step = "parsed"
    /\ codec' = [codec EXCEPT !.step = "serialized",
                              !.new_text = Serialize(codec.front_matter, codec.entry_text, None)]
    /\ UNCHANGED <<jdir, tmpdir, clock, concurrent, procVars>>

NextCodec == CodecParse \/ CodecSerialize

SpecCodec == InitCodec /\ [][NextCodec]_vars


(***************************************************************************)
(* The matchers on their own: find_entries and search_entries are called   *)
(* once on a journal directory with a keyword list.  The call is process   *)
(* 1's: its arguments are the keywords, its matches the list returned.     *)
(***************************************************************************)
\* two files with one stem
DirTwins ==
    Put(OneFile(get_entry_file(NameTodayB), TextTodayB), NameTodayB \o <<".", "t", "x", "t">>,
        File(<<"a", "b", "\n">>, Earlier))

MatcherDirs == InitialDirs \cup {DirTwins}

KeywordLists ==
    { <<>>, << <<>> >>, << <<"a">> >>, << <<"A">> >>, << <<"b">> >>, << <<"z">> >>,
      << <<"-", "0", "2">> >>, << <<"a">>, <<"0", "1", "-", "0", "1">> >>,
      << <<"2", "0", "2", "4">>, <<"b">> >>,
      << <<"t", "o", "d", "o">> >>, << <<"T", "O", "D", "O">> >>, << <<"T", "o", "d", "o">> >>,
      << <<"t", "i", "t", "l", "e">>, <<"a", "b">> >>,
      << <<"T", "I", "T", "L", "E">>, <<"A", "B">> >>,
      << <<"d", "r", "a", "f", "t">>, <<"t", "o", "d", "o">> >> }

InitMatcher ==
    /\ jdir \in MatcherDirs
    /\ tmpdir = DirEmpty
    /\ clock = 0
    /\ concurrent = FALSE
    /\ codec = NoCodec
    /\ pc = [p \in Procs |-> "idle"]
    /\ command = [p \in Procs |-> <<>>]
    /\ \E keywords \in KeywordLists : arguments = [p \in Procs |-> IF p = 1 THEN keywords ELSE <<>>]
    /\ matches = [p \in Procs |-> <<>>]
    /\ reads = [p \in Procs |-> 0]
    /\ said = [p \in Procs |-> ""]
    /\ chosen = [p \in Procs |-> <<>>]
    /\ entry = [p \in Procs |-> <<>>]
    /\ tmpfile = [p \in Procs |-> <<>>]
    /\ opened = [p \in Procs |-> -1]
    /\ check_entry = [p \in Procs |-> <<>>]
    /\ status = [p \in Procs |-> Running]
    /\ trace = [p \in Procs |-> <<>>]

\* matches = self.find_entries(keywords)
CallFindEntries ==
    /\ pc[1] = "idle"
    /\ pc' = [pc EXCEPT ![1] = "done"]
    /\ command' = [command EXCEPT ![1] = <<"e", "d", "i", "t">>]
    /\ matches' = [matches EXCEPT ![1] = find_entries(jdir, arguments[1])]
    /\ status' = [status EXCEPT ![1] = Exit(SUCCESS)]
    /\ trace' = [trace EXCEPT ![1] = <<"listdir">>]
    /\ UNCHANGED <<jdir, tmpdir, clock, concurrent, arguments, reads, said, chosen, entry,
                   tmpfile, opened, check_entry, codec>>

\* matches_all = self.search_entries(keywords)
CallSearchEntries ==
    /\ pc[1] = "idle"
    /\ pc' = [pc EXCEPT ![1] = "done"]
    /\ command' = [command EXCEPT ![1] = <<"s", "e", "a", "r", "c", "h">>]
    /\ IF SearchReadable(jdir)
       THEN /\ matches' = [matches EXCEPT ![1] = search_entries(jdir, arguments[1])]
            /\ status' = [status EXCEPT ![1] = Exit(SUCCESS)]
       ELSE /\ matches' = matches
            /\ status' = [status EXCEPT ![1] = Raise("FileNotFoundError")]
    /\ trace' = [trace EXCEPT ![1] = <<"listdir", "read">>]
    /\ UNCHANGED <<jdir, tmpdir, clock, concurrent, arguments, reads, said, chosen, entry,
                   tmpfile, opened, check_entry, codec>>

NextMatcher == CallFindEntries \/ CallSearchEntries

SpecMatcher == InitMatcher /\ [][NextMatcher]_vars


(***************************************************************************)
(* update_time on its own: it is called once on a journal directory with   *)
(* one entry, whose text is any of the codec's texts.  The call is process *)
(* 1's.                                                                    *)
(***************************************************************************)
InitFixer ==
    /\ \E name \in {NameOldA, NameTodayA}, text \in WellFormedTexts :
        /\ jdir = OneFile(get_entry_file(name), text)
        /\ entry = [p \in Procs |-> IF p = 1 THEN name ELSE <<>>]
    /\ tmpdir = DirEmpty
    /\ clock = 0
    /\ concurrent = FALSE
    /\ codec = NoCodec
    /\ pc = [p \in Procs |-> "idle"]
    /\ command = [p \in Procs |-> <<>>]
    /\ arguments = [p \in Procs |-> <<>>]
    /\ matches = [p \in Procs |-> <<>>]
    /\ reads = [p \in Procs |-> 0]
    /\ said = [p \in Procs |-> ""]
    /\ chosen = [p \in Procs |-> <<>>]
    /\ tmpfile = [p \in Procs |-> <<>>]
    /\ opened = [p \in Procs |-> -1]
    /\ check_entry = [p \in Procs |-> <<>>]
    /\ status = [p \in Procs |-> Running]
    /\ trace = [p \in Procs |-> <<>>]

\* self.update_time(entry)
CallUpdateTime ==
    /\ pc[1] = "idle"
    /\ \E slug_ok \in BOOLEAN :
        LET r == update_time(jdir, entry[1], clock, slug_ok)
        IN  /\ jdir' = r.dir
            /\ EndFixed(1, r, <<"update_time">>)
    /\ UNCHANGED <<tmpdir, clock, concurrent, command, arguments, matches, reads, said,
                   chosen, entry, tmpfile, opened, codec>>

NextFixer == CallUpdateTime

SpecFixer == InitFixer /\ [][NextFixer]_vars


(***************************************************************************)
(* The same runs under the assumption that the operator, asked to select,  *)
(* eventually types an entry's number or cancels.                          *)
(***************************************************************************)
CancelInputs ==
    { Line(<<>>), Line(<<"q">>), Line(<<"q", "u", "i", "t">>), Interrupt, EndOfInput }

\* the lines of SelectLines that are integers, and the integer each is
IntegerLines ==
    { <<"0">>, <<"1">>, <<"2">>, <<"3">>, <<"4">>, <<"-", "1">>, <<" ", "2">>,
      <<"1", "_", "0">> }

IntegerValue(text) ==
    CASE text = <<"0">> -> 0 [] text = <<"1">> -> 1 [] text = <<"2">> -> 2
      [] text = <<"3">> -> 3 [] text = <<"4">> -> 4 [] text = <<"-", "1">> -> 0 - 1
      [] text = <<" ", "2">> -> 2 [] text = <<"1", "_", "0">> -> 10

\* the inputs that are an integer of 1..n
InRangeInputs(n) ==
    { input \in SelectInputs :
        /\ input.kind = "line"
        /\ input.text \in IntegerLines
        /\ IntegerValue(input.text) \in 1..n }

\* the inputs that neither cancel nor are an integer of 1..n
InvalidInputs(n) == SelectInputs \ (CancelInputs \cup InRangeInputs(n))

OperatorEnds(p) ==
    \E input \in CancelInputs \cup InRangeInputs(Len(matches[p])) : Select(p, input)

FairSpec == Spec /\ \A p \in Procs : WF_vars(OperatorEnds(p))

(***************************************************************************)
(* The claims.                                                             *)
(***************************************************************************)
Range(seq) == {seq[i] : i \in 1..Len(seq)}
Last(seq) == seq[Len(seq)]

\* C1: a well-formed entry text that is parsed and then serialized without
\* modification comes out byte-identical.
C1_RoundTrip == codec.step = "serialized" => codec.new_text = codec.text

\* the lines of a text up to its closing separator line: <<>> when the text
\* does not open with a separator line or has no closing one
FrontLines(text) ==
    LET lines == Split(text, NL)
        closing == {i \in 2..(Len(lines) - 1) : lines[i] = FRONT_MATTER_SEP}
    IN  IF lines[1] # FRONT_MATTER_SEP \/ closing = {} THEN <<>>
        ELSE SubSeq(lines, 1, CHOOSE i \in closing : \A j \in closing : i <= j)

WellFormed(text) == FrontLines(text) # <<>>

IsDateLine(line) == MatchAt(line, KeyDate \o FRONT_MATTER_VALUE_SEP, 0)

\* new is old but for the values of the date lines of its front matter
OnlyDateChanged(old, new) ==
    LET lo == Split(old, NL)
        ln == Split(new, NL)
    IN  /\ Len(lo) = Len(ln)
        /\ \A i \in 1..Len(lo) :
            \/ lo[i] = ln[i]
            \/ i <= Len(FrontLines(old)) /\ IsDateLine(lo[i]) /\ IsDateLine(ln[i])

\* p's step is an update_time that returns
UpdateTimeReturns(p) ==
    /\ pc[p] \in {"templater", "yn_time"}
    /\ pc'[p] = "done"
    /\ Last(trace'[p]) = "update_time"
    /\ status'[p].exception = ""

\* C2: update_time changes only the value of the date field: every other
\* front-matter line and the body are the same bytes before and after.
C2_OnlyDate ==
    [][\A p \in Procs :
        (UpdateTimeReturns(p) /\ WellFormed(jdir[get_entry_file(entry[p])].text))
            => OnlyDateChanged(jdir[get_entry_file(entry[p])].text,
                               jdir'[get_entry_file(check_entry'[p])].text)]_vars

\* p's step is the editor's exit, with both files in place
EditorExits(p) ==
    /\ pc[p] = "editor"
    /\ pc'[p] # "editor"
    /\ isfile(jdir, get_entry_file(entry[p]))
    /\ isfile(tmpdir, tmpfile[p])

ScratchSame(p) == tmpdir[tmpfile[p]].text = jdir[get_entry_file(entry[p])].text

\* C3: when the editor leaves the scratch file byte-identical to the entry
\* file, edit_entry ends with the journal directory as it was (the entry's
\* bytes and name), without the timestamp prompt and without update_time.
C3_NoChange ==
    [][\A p \in Procs :
        (EditorExits(p) /\ ScratchSame(p))
            => /\ jdir' = jdir
               /\ pc'[p] = "done"
               /\ status'[p] = Exit(SUCCESS)
               /\ trace'[p] = trace[p] \o <<"cmp", "message">>]_vars

\* an edit session ended with "No changes made" after the editor saved the
\* same bytes again
C3_Witness ==
    \E p \in Procs :
        /\ pc[p] = "done"
        /\ Len(trace[p]) >= 2
        /\ SubSeq(trace[p], Len(trace[p]) - 1, Len(trace[p])) = <<"cmp", "message">>
        /\ isfile(tmpdir, tmpfile[p])
        /\ ScratchSame(p)
        /\ tmpdir[tmpfile[p]].mtime # jdir[get_entry_file(entry[p])].mtime

\* C4: when the editor changed the scratch file, the entry file holds the
\* scratch file's bytes when the timestamp prompt is asked, and still holds
\* them under its name after any answer that is not affirmative.
C4_Commit ==
    [][\A p \in Procs :
        /\ (EditorExits(p) /\ ~ScratchSame(p))
            => /\ pc'[p] = "yn_time"
               /\ Last(trace'[p]) = "yn_prompt"
               /\ isfile(jdir', get_entry_file(entry[p]))
               /\ jdir'[get_entry_file(entry[p])].text = tmpdir[tmpfile[p]].text
        /\ \A input \in YnInputs :
            (YnTime(p, input) /\ yn_prompt(input) # 0)
                => jdir' = jdir /\ pc'[p] = "done"]_vars

\* p ran a command that resolves a match set, and the match set is empty
NoMatches(p) ==
    /\ command[p] \in edit_aliases \cup search_aliases
    /\ "listdir" \in Range(trace[p])
    /\ status[p].exception = ""
    /\ matches[p] = <<>>

NothingOpened(p) ==
    /\ "numbered_list" \notin Range(trace[p])
    /\ "copy" \notin Range(trace[p])
    /\ "editor" \notin Range(trace[p])
    /\ entry[p] = <<>>

\* C5 as claimed: with an empty match set, edit and search show no numbered
\* list, open no entry and end with the "no matching entries" status, which
\* is neither the success status nor the selection-cancelled status.
C5_AsClaimed ==
    \A p \in Procs :
        NoMatches(p)
            => /\ pc[p] = "done"
               /\ NothingOpened(p)
               /\ status[p] = Exit(ERR_NONE_FOUND)
               /\ ERR_NONE_FOUND \notin {SUCCESS, ERR_SELECT_CANCEL}

\* C5, amended: with an empty match set, edit and search show no numbered
\* list and open no entry; edit ends with the "no matching entries" status,
\* which is neither the success status nor the selection-cancelled status,
\* and search ends with the success status.
C5_NoneFound ==
    \A p \in Procs :
        NoMatches(p)
            => /\ pc[p] = "done"
               /\ NothingOpened(p)
               /\ status[p] = IF command[p] \in edit_aliases
                              THEN Exit(ERR_NONE_FOUND) ELSE Exit(SUCCESS)
               /\ ERR_NONE_FOUND \notin {SUCCESS, ERR_SELECT_CANCEL}

\* an edit that found nothing has ended
C5_Witness ==
    \E p \in Procs :
        /\ NoMatches(p)
        /\ command[p] \in edit_aliases
        /\ arguments[p] # <<>>
        /\ pc[p] = "done"
        /\ DOMAIN jdir # {}

\* C6: with exactly one match no selection input is read and no numbered
\* list is shown, and the entry given to edit_entry is that match.
C6_OneMatch ==
    \A p \in Procs :
        Len(matches[p]) = 1
            => /\ pc[p] # "select"
               /\ reads[p] = 0
               /\ "numbered_list" \notin Range(trace[p])
               /\ chosen[p] \in { <<>>, <<0>> }
               /\ entry[p] \in { <<>>, matches[p][1] }
               /\ "copy" \in Range(trace[p]) => entry[p] = matches[p][1]

\* a search with one match, answered with yes, is in the editor on that match
C6_Witness ==
    \E p \in Procs :
        /\ Len(matches[p]) = 1
        /\ command[p] \in search_aliases
        /\ pc[p] = "editor"
        /\ chosen[p] = <<0>>
        /\ entry[p] = matches[p][1]
        /\ isfile(tmpdir, tmpfile[p])

\* C7: with two or more matches, a blank line, "q", "quit", an interrupt or
\* the end of the input cancels the selection in any turn of the loop: the
\* chooser returns -1, and the command opens no entry, changes no file and
\* ends with the selection-cancelled status, which is not the not-found one.
C7_Cancel ==
    [][\A p \in Procs : \A input \in CancelInputs :
        (Len(matches[p]) >= 2 /\ Select(p, input))
            => /\ chosen'[p] = <<0 - 1>>
               /\ pc'[p] = "done"
               /\ status'[p] = Exit(ERR_SELECT_CANCEL)
               /\ ERR_SELECT_CANCEL # ERR_NONE_FOUND
               /\ jdir' = jdir /\ tmpdir' = tmpdir
               /\ entry'[p] = <<>>
               /\ "copy" \notin Range(trace'[p])
               /\ "editor" \notin Range(trace'[p])]_vars

\* a selection was cancelled after inputs had been rejected
C7_Witness ==
    \E p \in Procs :
        /\ Len(matches[p]) >= 2
        /\ chosen[p] = <<0 - 1>>
        /\ reads[p] = MaxReads
        /\ pc[p] = "done"
        /\ status[p] = Exit(ERR_SELECT_CANCEL)

\* C8: with N >= 2 matches, an input that is no cancel token and is not an
\* integer of 1..N neither resolves nor cancels: the chooser prints an
\* error and stays in its loop to read again, and nothing is opened.
C8_Reject ==
    [][\A p \in Procs : \A input \in InvalidInputs(Len(matches[p])) :
        (Len(matches[p]) >= 2 /\ Select(p, input))
            => /\ pc'[p] = "select"
               /\ said'[p] # ""
               /\ chosen'[p] = <<>>
               /\ status'[p] = Running
               /\ entry'[p] = <<>> /\ tmpfile'[p] = <<>>
               /\ trace'[p] = trace[p]
               /\ jdir' = jdir /\ tmpdir' = tmpdir]_vars

\* the chooser is in its loop after it rejected a number out of range, and
\* not for the first time
C8_Witness ==
    \E p \in Procs :
        /\ Len(matches[p]) >= 2
        /\ pc[p] = "select"
        /\ said[p] = "ERROR: out of range"
        /\ reads[p] = MaxReads

\* list is in descending order
Descending(list) ==
    \A i, j \in 1..Len(list) : i < j => ~StrLess(list[i], list[j])

C10_NoLimit ==
    /\ [][\A p \in Procs :
            /\ (pc[p] = "select" /\ pc'[p] # "select")
                => \/ chosen'[p] = <<0 - 1>>
                   \/ /\ chosen'[p] # <<>>
                      /\ chosen'[p][1] \in 0..(Len(matches[p]) - 1)
            /\ pc[p] = "select"
                => \A input \in InvalidInputs(Len(matches[p])) :
                    Select(p, input) => pc'[p] = "select" /\ chosen'[p] = <<>>]_vars
    /\ \A p \in Procs : (pc[p] = "select") ~> (pc[p] # "select")

\* the chooser returned after it had read as many inputs as are counted
C10_Witness ==
    \E p \in Procs :
        /\ chosen[p] # <<>>
        /\ Len(matches[p]) >= 2
        /\ reads[p] = MaxReads
        /\ pc[p] # "select"

\* the answers that are a yes and those that are a no, letter case apart
AffirmativeInputs == { Line(<<"y">>), Line(<<"Y", "E", "S">>) }
NegativeInputs == { Line(<<"n">>), Line(<<"N", "o">>) }
IndeterminateInputs == YnInputs \ (AffirmativeInputs \cup NegativeInputs)

\* C11: the yes/no prompt returns yes exactly for y/yes and no exactly for
\* n/no, letter case apart, and indeterminate for every other line, an
\* interrupt or the end of the input; after an indeterminate answer neither
\* caller does anything more: no entry is opened, no timestamp updated, no
\* file written or renamed.
C11_YesNo ==
    [][\A p \in Procs :
        /\ \A input \in YnInputs :
            (pc[p] \in {"yn_open", "yn_time"} /\ pc'[p] # pc[p])
                => /\ (yn_prompt(input) = 0) = (input \in AffirmativeInputs)
                   /\ (yn_prompt(input) = 1) = (input \in NegativeInputs)
                   /\ (yn_prompt(input) = 0 - 1) = (input \in IndeterminateInputs)
        /\ \A input \in IndeterminateInputs :
            (YnOpen(p, input) \/ YnTime(p, input))
                => /\ jdir' = jdir /\ tmpdir' = tmpdir
                   /\ pc'[p] = "done"
                   /\ status'[p] = Exit(SUCCESS)
                   /\ trace'[p] = trace[p] \o <<"message">>
                   /\ chosen'[p] = chosen[p] /\ entry'[p] = entry[p]
                   /\ tmpfile'[p] = tmpfile[p]
                   /\ check_entry'[p] = check_entry[p]]_vars

\* a search with matches ended at an answer that was neither yes nor no
C11_Witness ==
    \E p \in Procs :
        /\ pc[p] = "done"
        /\ command[p] \in search_aliases
        /\ matches[p] # <<>>
        /\ Len(trace[p]) >= 2
        /\ SubSeq(trace[p], Len(trace[p]) - 1, Len(trace[p])) = <<"yn_prompt", "message">>
        /\ entry[p] = <<>>

\* k is a substring of s
IsSubstring(k, s) ==
    \E i \in 0..(Len(s) - Len(k)) : \A j \in 1..Len(k) : s[i + j] = k[j]

\* the call of find_entries or search_entries that SpecMatcher makes returned
FindReturned == pc[1] = "done" /\ command[1] \in edit_aliases /\ status[1] = Exit(SUCCESS)
SearchReturned == pc[1] = "done" /\ command[1] \in search_aliases /\ status[1] = Exit(SUCCESS)

\* C12: find_entries returns an entry if and only if every keyword is a
\* substring of the entry's name, letter case included; with no keyword it
\* returns every entry.
C12_ByName ==
    FindReturned
        => /\ \A e \in Range(get_entries(jdir)) :
                (e \in Range(matches[1]))
                    = (\A k \in Range(arguments[1]) : IsSubstring(k, e))
           /\ Range(matches[1]) \subseteq Range(get_entries(jdir))
           /\ arguments[1] = <<>> => Range(matches[1]) = Range(get_entries(jdir))

\* find_entries with two keywords returned some entries of the directory and
\* left others out
C12_Witness ==
    /\ FindReturned
    /\ Len(arguments[1]) = 2
    /\ matches[1] # <<>>
    /\ Range(matches[1]) # Range(get_entries(jdir))

\* the letters of the keywords and texts, upper case and lower case
CasePairs ==
    { <<"A", "a">>, <<"B", "b">>, <<"D", "d">>, <<"E", "e">>, <<"I", "i">>,
      <<"L", "l">>, <<"O", "o">>, <<"T", "t">> }

\* c and d are one character, letter case apart
SameButCase(c, d) == c = d \/ <<c, d>> \in CasePairs \/ <<d, c>> \in CasePairs

\* k occurs in s, letter case apart
IsFoldedSubstring(k, s) ==
    \E i \in 0..(Len(s) - Len(k)) : \A j \in 1..Len(k) : SameButCase(s[i + j], k[j])

\* keyword lists that differ in letter case only
SameKeywordsButCase(ks1, ks2) ==
    /\ Len(ks1) = Len(ks2)
    /\ \A i \in 1..Len(ks1) :
        /\ Len(ks1[i]) = Len(ks2[i])
        /\ \A j \in 1..Len(ks1[i]) : SameButCase(ks1[i][j], ks2[i][j])

\* C13: search_entries returns an entry if and only if every keyword occurs,
\* letter case apart, in the whole text of the entry's file (front matter
\* and body); keyword lists that differ in letter case only give the same
\* result set.
C13_ByContent ==
    SearchReturned
        => /\ \A e \in Range(get_entries(jdir)) :
                (e \in Range(matches[1]))
                    = (\A k \in Range(arguments[1]) :
                            IsFoldedSubstring(k, jdir[get_entry_file(e)].text))
           /\ Range(matches[1]) \subseteq Range(get_entries(jdir))
           /\ \A other \in KeywordLists :
                SameKeywordsButCase(arguments[1], other)
                    => Range(search_entries(jdir, other)) = Range(matches[1])

\* search_entries with upper-case keywords, one of the front matter and one
\* of the body, returned some entries of the directory and left others out
C13_Witness ==
    /\ SearchReturned
    /\ arguments[1] = << <<"T", "I", "T", "L", "E">>, <<"A", "B">> >>
    /\ matches[1] # <<>>
    /\ Range(matches[1]) # Range(get_entries(jdir))

\* every element of the list is less than the one before it
StrictlyDescending(list) ==
    \A i \in 1..(Len(list) - 1) : StrLess(list[i + 1], list[i])

\* C14: the lists find_entries and search_entries return are in strictly
\* descending order of the entry names: no element is equal to or greater
\* than the one before it, whatever the journal directory holds.
C14_StrictOrder ==
    (FindReturned \/ SearchReturned) => StrictlyDescending(matches[1])

\* p's step is cmd_new with a template name and a title
NewStarts(p) ==
    /\ pc[p] = "idle"
    /\ pc'[p] # "idle"
    /\ command'[p] \in new_aliases
    /\ Len(arguments'[p]) >= 2

\* C15: cmd_new whose computed name (today's date and the slug of the title)
\* is the name of an entry that exists ends with the "entry already exists"
\* error: the templater is not called and the entry's file is as it was,
\* also when the entry was created by an earlier cmd_new of the same day.
C15_Collision ==
    [][\A p \in Procs :
        (NewStarts(p) /\ get_entry_file(entry'[p]) \in DOMAIN jdir)
            => /\ SubSeq(entry'[p], 1, Len(Today) + 1) = Today \o <<"-">>
               /\ pc'[p] = "done"
               /\ status'[p] = Exit(ERR_FILE_EXISTS)
               /\ "templater" \notin Range(trace'[p])
               /\ jdir' = jdir /\ tmpdir' = tmpdir]_vars

\* a cmd_new was rejected for an entry that an earlier cmd_new of the run
\* had created
C15_Witness ==
    \E p \in Procs :
        /\ command[p] \in new_aliases
        /\ status[p] = Exit(ERR_FILE_EXISTS)
        /\ isfile(jdir, get_entry_file(entry[p]))
        /\ jdir[get_entry_file(entry[p])].mtime >= 0
        /\ get_entry_text(jdir[get_entry_file(entry[p])].text) = <<>>

\* p's step runs update_time (and so fix_entry) on its entry
UpdateTimeRuns(p) ==
    /\ pc[p] \in {"templater", "yn_time"}
    /\ pc'[p] = "done"
    /\ Last(trace'[p]) = "update_time"

\* C16: the rename of fix_entry fails with an "already exists" error when
\* another entry has the recomputed name, and both files are left as they
\* were; it fails with a "not found" error when the entry's file is absent.
C16_RenameFails ==
    [][\A p \in Procs :
        UpdateTimeRuns(p)
            => LET source == get_entry_file(entry[p])
                   destination == get_entry_file(check_entry'[p])
               IN  /\ (/\ source \in DOMAIN jdir
                       /\ check_entry'[p] \notin {<<>>, entry[p]}
                       /\ destination \in DOMAIN jdir)
                        => /\ status'[p].exception # ""
                           /\ destination \in DOMAIN jdir'
                           /\ jdir'[destination] = jdir[destination]
                           /\ source \in DOMAIN jdir'
                   /\ source \notin DOMAIN jdir
                        => /\ status'[p].exception = "FileNotFoundError"
                           /\ jdir' = jdir]_vars

\* C17: no entry is ever deleted: at every step of new, edit and search,
\* whatever the operator answers and the editor saves, a file that is not
\* the entry the command works on stays as it is, the entry itself stays
\* under its name or the name the fixup gave it, and the number of files of
\* the journal directory does not decrease.
C17_NeverDeleted ==
    [][/\ Cardinality(DOMAIN jdir') >= Cardinality(DOMAIN jdir)
       /\ \A name \in DOMAIN jdir :
            IF \E p \in Procs : name = get_entry_file(entry[p])
            THEN \/ name \in DOMAIN jdir'
                 \/ \E p \in Procs :
                        /\ name = get_entry_file(entry[p])
                        /\ get_entry_file(check_entry'[p]) \in DOMAIN jdir'
            ELSE name \in DOMAIN jdir' /\ jdir'[name] = jdir[name]]_vars

\* the front matter of the text has a line of the key, with or without value
HasKey(text, key) ==
    \E i \in 2..(Len(FrontLines(text)) - 1) :
        \/ FrontLines(text)[i] = key
        \/ MatchAt(FrontLines(text)[i], key \o FRONT_MATTER_VALUE_SEP, 0)

\* C18: update_time (fix_entry) on an entry whose front matter has no title
\* key or no date key fails with an error, and neither computes a slug nor
\* renames the file.
C18_MissingMetadata ==
    [][\A p \in Procs :
        (/\ pc[p] # "done" /\ pc'[p] = "done"
         /\ trace'[p] # <<>> /\ Last(trace'[p]) = "update_time"
         /\ get_entry_file(entry[p]) \in DOMAIN jdir
         /\ LET text == jdir[get_entry_file(entry[p])].text
            IN  ~HasKey(text, KeyTitle) \/ ~HasKey(text, KeyDate))
            => /\ status'[p].exception # ""
               /\ check_entry'[p] = <<>>
               /\ DOMAIN jdir' = DOMAIN jdir]_vars

\* the command is no command, or has fewer arguments than it requires
BadUsage(c, a) ==
    \/ c \in new_aliases /\ Len(a) < 2
    \/ c \in edit_aliases /\ Len(a) = 0
    \/ c \notin new_aliases \cup edit_aliases \cup search_aliases \cup {Help}

\* C19: new with fewer than two arguments, edit with none and an unknown
\* command end with a status that is not the success status before any
\* input or output: the journal directory is not listed, no file is read or
\* written, and neither the slug command, the templater nor the editor is
\* called.
C19_Usage ==
    [][\A p \in Procs :
        (pc[p] = "idle" /\ pc'[p] # "idle" /\ BadUsage(command'[p], arguments'[p]))
            => /\ pc'[p] = "done"
               /\ status'[p].exited
               /\ status'[p].exception = ""
               /\ status'[p].code \in {ERR_WRONG_ARGS, ERR_NO_SUCH_CMD}
               /\ status'[p].code # SUCCESS
               /\ trace'[p] = <<"error">>
               /\ matches'[p] = <<>> /\ entry'[p] = <<>> /\ tmpfile'[p] = <<>>
               /\ jdir' = jdir /\ tmpdir' = tmpdir]_vars

\* an edit without arguments ended as a usage error in a journal directory
\* that has entries
C19_Witness ==
    \E p \in Procs :
        /\ pc[p] = "done"
        /\ command[p] \in edit_aliases
        /\ arguments[p] = <<>>
        /\ status[p] = Exit(ERR_WRONG_ARGS)
        /\ trace[p] = <<"error">>
        /\ DOMAIN jdir # {}

\* C20: the exit status of every collaborator is checked: when the slug
\* command fails (and so prints nothing), cmd_new ends with a status that
\* is not the success status and does not call the templater with the empty
\* slug; when the templater fails, cmd_new ends before update_time and
\* leaves the journal directory as it is.
C20_StatusChecked ==
    [][\A p \in Procs :
        /\ (NewStarts(p) /\ entry'[p] = strftime_F(clock) \o <<"-">>)
            => /\ pc'[p] = "done"
               /\ status'[p].code # SUCCESS
               /\ "templater" \notin Range(trace'[p])
        /\ (pc[p] = "templater" /\ status'[p] = Exit(ERR_TEMPLATE_FAIL))
            => /\ jdir' = jdir
               /\ "update_time" \notin Range(trace'[p])]_vars

\* the names of the files of the directory that end with the entry
\* extension, without it
EntryStems(dir) ==
    { SubSeq(n, 1, Len(n) - Len(ENTRY_EXT)) :
        n \in { m \in DOMAIN dir :
                  /\ Len(m) > Len(ENTRY_EXT)
                  /\ SubSeq(m, Len(m) - Len(ENTRY_EXT) + 1, Len(m)) = ENTRY_EXT } }

\* C21: get_entries returns exactly the names of the files that carry the
\* entry extension, without the extension; a file with another extension
\* or none gives no entry name, so every name returned (here through
\* find_entries, which returns all of them when it has no keyword) has its
\* file in the journal directory.
C21_EntriesAreMdFiles ==
    FindReturned
        => /\ Range(matches[1]) \subseteq EntryStems(jdir)
           /\ \A n \in Range(matches[1]) : get_entry_file(n) \in DOMAIN jdir
           /\ arguments[1] = <<>>
                => /\ Range(matches[1]) = EntryStems(jdir)
                   /\ Range(get_entries(jdir)) = EntryStems(jdir)

\* the value of the key's last line in the front matter of the text
StoredValue(text, key) ==
    LET front == FrontLines(text)
        at == {i \in 2..(Len(front) - 1) : MatchAt(front[i], key \o FRONT_MATTER_VALUE_SEP, 0)}
        line == front[CHOOSE i \in at : \A j \in at : j <= i]
    IN  SubSeq(line, Len(key) + Len(FRONT_MATTER_VALUE_SEP) + 1, Len(line))

\* the name the text of an entry asks for: the date part of its date, "-",
\* the slug of its title
StoredName(text) ==
    SubSeq(StoredValue(text, KeyDate), 1, Len(Today)) \o <<"-">>
        \o SlugOf(StoredValue(text, KeyTitle))

\* C22: when update_time (fix_entry) has returned, the entry's file has the
\* name its text asks for: the date part of the date stored in it, "-", the
\* slug of the title stored in it.  When that is another name than the one
\* update_time was called with, the file is under the new name and no
\* longer under the old one; when it is the same, no file is renamed.
C22_NameFollowsMetadata ==
    [][\A p \in Procs :
        UpdateTimeReturns(p)
            => LET new == get_entry_file(check_entry'[p])
                   old == get_entry_file(entry[p])
               IN  /\ new \in DOMAIN jdir'
                   /\ HasKey(jdir'[new].text, KeyDate)
                   /\ HasKey(jdir'[new].text, KeyTitle)
                   /\ check_entry'[p] = StoredName(jdir'[new].text)
                   /\ new # old => old \notin DOMAIN jdir'
                   /\ new = old => DOMAIN jdir' = DOMAIN jdir]_vars

\* C23: the scratch file of an edit session exists only during the session:
\* when edit_entry returns, after it moved the scratch file over the entry
\* or after it found no change, the scratch file is not in the temporary
\* directory.
C23_ScratchRemoved ==
    [][\A p \in Procs :
        (/\ pc[p] \in {"editor", "yn_time"}
         /\ pc'[p] = "done"
         /\ status'[p].exception = "")
            => tmpfile[p] \notin DOMAIN tmpdir']_vars

(***************************************************************************)
(* Two invocations of `jctl edit` that overlap: each is a process of its   *)
(* own, and both work on the same journal directory and the same TMP_DIR.  *)
(***************************************************************************)
DirSessions == Put(DirOne, get_entry_file(NameTodayB), File(TextTodayB, Earlier))

InitSessions ==
    /\ jdir = DirSessions
    /\ tmpdir = DirEmpty
    /\ clock = 0
    /\ concurrent = TRUE
    /\ InitProcs
    /\ codec = NoCodec

\* what the operators of the two sessions type
SessionSelectInputs == {Line(<<"1">>), Line(<<"2">>), Line(<<"q">>)}
SessionYnInputs == {Line(<<"y">>), Line(<<"n">>)}

NextSessions ==
    \/ Tick
    \/ \E p \in Procs :
        \/ CmdEdit(p)
        \/ EditorSave(p)
        \/ EditorExit(p)
        \/ \E input \in SessionYnInputs : YnTime(p, input)
        \/ \E input \in SessionSelectInputs : Select(p, input)

SpecSessions == InitSessions /\ [][NextSessions]_vars

\* C24: the scratch path of an edit session depends on the second it was
\* opened in and on nothing else: two sessions opened in the same second
\* have the same scratch path whichever entries they edit, and two sessions
\* opened in different seconds have different scratch paths.
C24_PathBySecond ==
    \A p, q \in Procs :
        (opened[p] >= 0 /\ opened[q] >= 0)
            => (tmpfile[p] = tmpfile[q] <=> opened[p] = opened[q])

\* Two overlapping sessions on different entries, opened in the same second:
\* one has moved the scratch file over its entry, and the entry now holds
\* the text the other session copied from its own entry.
C24_Witness ==
    \E p, q \in Procs :
        /\ p # q
        /\ opened[p] >= 0 /\ opened[p] = opened[q]
        /\ entry[p] # entry[q]
        /\ tmpfile[p] = tmpfile[q]
        /\ pc[p] = "yn_time" /\ Last(trace[p]) = "yn_prompt"
        /\ pc[q] = "editor"
        /\ isfile(jdir, get_entry_file(entry[p]))
        /\ jdir[get_entry_file(entry[p])].text = DirSessions[get_entry_file(entry[q])].text
        /\ jdir[get_entry_file(entry[p])].text # DirSessions[get_entry_file(entry[p])].text

=============================================================================
